---------------------------- MODULE Spec2Model ----------------------------
(***************************************************************************)
(* Model of tracklab's TrackEval wrapper                                   *)
(* (src/tracklab/wrappers/eval/trackeval_evaluator.py): the two on-disk    *)
(* encoders, the evaluation run and the metric formatter.                  *)
(*                                                                         *)
(* Data representation.                                                    *)
(*  - A DataFrame is a sequence of rows.  A row is a record whose fields   *)
(*    are the columns, plus the field "index" holding the row's index      *)
(*    label.  The columns of a table are the domain of its rows.           *)
(*  - A nullable cell is <<>> (None / NaN) or <<v>> (the value v).         *)
(*  - Text produced by str(...) is a sequence of decimal digits.           *)
(*  - A path is a sequence of components.  The file system is a record     *)
(*    [dirs, files, zips].                                                 *)
(***************************************************************************)
EXTENDS Integers, Sequences, FiniteSets, TLC

VARIABLES
    detections_pred,   \* tracker_state.detections_pred (caller's table)
    detections_gt,     \* tracker_state.detections_gt: NoTable, or a table
    image_metadatas,   \* tracker_state.image_metadatas (caller's table)
    video_metadatas,   \* tracker_state.video_metadatas (caller's table)
    cfg,               \* evaluator configuration
    fs,                \* the file system
    pc,                \* position of the operation in progress
    call,              \* arguments of the last encoder call
    engine_calls,      \* invocations of trackeval.Evaluator.evaluate
    wandb_log,         \* what was handed to wandb.log
    trace,             \* the run's externally visible steps, in order
    metric,            \* format_metric's arguments
    rendered           \* format_metric's result

vars == <<detections_pred, detections_gt, image_metadatas, video_metadatas,
          cfg, fs, pc, call, engine_calls, wandb_log, trace, metric, rendered>>

-----------------------------------------------------------------------------
(* Bounds of the explored inputs. *)

MaxDets == 2
MaxFrame == 2
MaxMetrics == 2
MaxNameLen == 3

(* Index labels and names of the metadata tables explored. *)
VideoIndex == <<1, 2>>
VideoNames == <<"seq-a", "seq-b">>
ImageIndex == <<1, 2>>
UnknownImage == Len(ImageIndex) + 1

-----------------------------------------------------------------------------
(* Nullable cells. *)

None == <<>>
Some(v) == <<v>>
notna(x) == x # None
Val(x) == x[1]

(* A row extended (or overwritten) with column c. *)
SetCol(row, c, v) ==
    [k \in DOMAIN row \cup {c} |-> IF k = c THEN v ELSE row[k]]

(* The row restricted to the columns in cols that it has. *)
Project(row, cols) == [k \in DOMAIN row \cap cols |-> row[k]]

SeqRange(s) == {s[i] : i \in DOMAIN s}

SetMin(S) == CHOOSE m \in S : \A x \in S : m <= x

-----------------------------------------------------------------------------
(* File system. *)

EmptyFS == [dirs |-> {}, files |-> <<>>, zips |-> <<>>]

(* os.makedirs(path, exist_ok=True) / Path.mkdir(parents=True, exist_ok=True) *)
makedirs(f, path) ==
    [f EXCEPT !.dirs = @ \cup {SubSeq(path, 1, n) : n \in 1..Len(path)}]

(* open(path, "w"): create or truncate, then write content *)
WriteFile(f, path, content) ==
    [f EXCEPT !.files =
        [p \in DOMAIN @ \cup {path} |-> IF p = path THEN content ELSE @[p]]]

(* zipfile.ZipFile(path, "a").write(...): append one entry *)
ZipAppend(f, path, entry) ==
    [f EXCEPT !.zips =
        [p \in DOMAIN @ \cup {path} |->
            IF p = path
            THEN (IF p \in DOMAIN @ THEN @[p] ELSE <<>>) \o <<entry>>
            ELSE @[p]]]

StaleContent == [fmt |-> "stale", body |-> <<>>]


-----------------------------------------------------------------------------
(* Line format: _mot_encoding and save_in_mot_challenge_format. *)

(* image_metadatas["id"] = image_metadatas.index -- performed on the       *)
(* caller's table itself, not on a copy.                                   *)
assign_id_from_index(image_metadatas_arg) ==
    [i \in DOMAIN image_metadatas_arg |->
        SetCol(image_metadatas_arg[i], "id", image_metadatas_arg[i].index)]

(* One row of pd.merge(left, right, suffixes=('', '_y')): the index of     *)
(* both sides is dropped, the left columns keep their names, a right       *)
(* column that is also a left column gets the suffix "_y".                 *)
MergeRow(l, r) ==
    LET lc == DOMAIN l \ {"index"}
        rc == DOMAIN r \ {"index"}
        both == lc \cap rc
    IN  [k \in lc \cup (rc \ lc) \cup {c \o "_y" : c \in both} |->
            IF k \in lc THEN l[k]
            ELSE IF k \in rc THEN r[k]
            ELSE r[CHOOSE c \in both : c \o "_y" = k]]

RECURSIVE MatchRows(_, _)
MatchRows(l, right) ==
    IF right = <<>> THEN <<>>
    ELSE (IF Head(right).image_id = l.id
          THEN <<MergeRow(l, Head(right))>> ELSE <<>>)
         \o MatchRows(l, Tail(right))

(* pd.merge(left, right, left_on="id", right_on="image_id"): inner join,   *)
(* in the order of the left keys.                                          *)
RECURSIVE merge(_, _)
merge(left, right) ==
    IF left = <<>> THEN <<>>
    ELSE MatchRows(Head(left), right) \o merge(Tail(left), right)

(* df.dropna(subset=["frame", "track_id", bbox_column], how="any") *)
dropna_required(df, bbox_column) ==
    SelectSeq(df, LAMBDA r : /\ notna(r.frame)
                             /\ notna(r.track_id)
                             /\ notna(r[bbox_column]))

(* The columns _mot_encoding derives on each retained row. *)
derive_mot_columns(r, bbox_column) ==
    LET bbox == Val(r[bbox_column])
    IN  [k \in DOMAIN r \cup {"bb_left", "bb_top", "bb_width", "bb_height",
                              "x", "y", "z"} |->
            CASE k = "bb_left" -> bbox[1]
              [] k = "bb_top" -> bbox[2]
              [] k = "bb_width" -> bbox[3]
              [] k = "bb_height" -> bbox[4]
              [] k \in {"x", "y", "z"} -> -1
              [] OTHER -> r[k]]

(* The table _mot_encoding returns, given the frame table after the id     *)
(* column was assigned.                                                    *)
_mot_encoding(detections, image_metadatas_arg, bbox_column) ==
    LET df == dropna_required(
                  merge(assign_id_from_index(image_metadatas_arg), detections),
                  bbox_column)
    IN  [i \in DOMAIN df |-> derive_mot_columns(df[i], bbox_column)]

(* Mutant of shift_frames: the shift is applied whatever the minimum is. *)
shift_frames_always(file_df) ==
    [i \in DOMAIN file_df |-> [file_df[i] EXCEPT !.frame = Some(Val(@) + 1)]]

(* if file_df["frame"].min() == 0: file_df["frame"] = file_df["frame"] + 1 *)
(* (the minimum of an empty column is NaN, which is not 0)                 *)
shift_frames(file_df) ==
    IF file_df # <<>> /\ SetMin({Val(file_df[i].frame) : i \in DOMAIN file_df}) = 0
    THEN [i \in DOMAIN file_df |->
            [file_df[i] EXCEPT !.frame = Some(Val(@) + 1)]]
    ELSE file_df

(* file_df.sort_values(by="frame"): rows of equal frame keep their order   *)
(* (the tables explored are short enough for the sort to be stable).       *)
RECURSIVE sort_values_frame(_)
sort_values_frame(df) ==
    IF df = <<>> THEN <<>>
    ELSE LET n == Len(df)
             sorted == sort_values_frame(SubSeq(df, 1, n - 1))
             x == df[n]
             k == Cardinality({i \in DOMAIN sorted :
                                 Val(sorted[i].frame) <= Val(x.frame)})
         IN  SubSeq(sorted, 1, k) \o <<x>> \o SubSeq(sorted, k + 1, Len(sorted))

(* One written line: the ten columns handed to to_csv. *)
mot_line(r, save_classes) ==
    <<Val(r.frame), Val(r.track_id), r.bb_left, r.bb_top, r.bb_width,
      r.bb_height, r.bbox_conf,
      IF save_classes THEN r.category_id ELSE r.x, r.y, r.z>>

(* Mutant of write_mot_video: no file is created for a video without rows. *)
write_mot_video_skip_empty(f, video, mot_df, save_path, save_classes) ==
    LET file_path == Append(save_path, video.name \o ".txt")
        file_df == shift_frames(
                       SelectSeq(mot_df, LAMBDA r : r.video_id = video.index))
        sorted == sort_values_frame(file_df)
    IN  IF file_df # <<>>
        THEN WriteFile(f, file_path,
                 [fmt |-> "csv",
                  body |-> [i \in DOMAIN sorted |-> mot_line(sorted[i], save_classes)]])
        ELSE f

(* The body of the loop over video_metadatas.iterrows() for one video. *)
write_mot_video(f, video, mot_df, save_path, save_classes) ==
    LET file_path == Append(save_path, video.name \o ".txt")
        file_df == shift_frames(
                       SelectSeq(mot_df, LAMBDA r : r.video_id = video.index))
        sorted == sort_values_frame(file_df)
    IN  IF file_df # <<>>
        THEN WriteFile(f, file_path,
                 [fmt |-> "csv",
                  body |-> [i \in DOMAIN sorted |-> mot_line(sorted[i], save_classes)]])
        ELSE WriteFile(f, file_path, [fmt |-> "csv", body |-> <<>>])

RECURSIVE write_mot_videos(_, _, _, _, _)
write_mot_videos(f, videos, mot_df, save_path, save_classes) ==
    IF videos = <<>> THEN f
    ELSE write_mot_videos(
             write_mot_video(f, Head(videos), mot_df, save_path, save_classes),
             Tail(videos), mot_df, save_path, save_classes)

(* Mutant of save_in_mot_challenge_format: a ground-truth call returns at   *)
(* once, as save_in_soccernet_format does.                                 *)
save_in_mot_challenge_format_gt_noop(f, detections, image_metadatas_arg, video_metadatas_arg, save_folder, bbox_column, save_classes, is_ground_truth) ==
    IF is_ground_truth THEN f
    ELSE write_mot_videos(makedirs(f, save_folder), video_metadatas_arg,
                          _mot_encoding(detections, image_metadatas_arg, bbox_column),
                          save_folder, save_classes)

(* The file system after save_in_mot_challenge_format.  is_ground_truth is *)
(* accepted and never read.                                                *)
save_in_mot_challenge_format(f, detections, image_metadatas_arg, video_metadatas_arg, save_folder, bbox_column, save_classes, is_ground_truth) ==
    write_mot_videos(makedirs(f, save_folder), video_metadatas_arg,
                     _mot_encoding(detections, image_metadatas_arg, bbox_column),
                     save_folder, save_classes)

(* The caller's frame table after save_in_mot_challenge_format. *)
mot_image_metadatas_after(image_metadatas_arg) ==
    assign_id_from_index(image_metadatas_arg)


-----------------------------------------------------------------------------
(* Inputs. *)

(* tracker_state.detections_gt: None, or a table (possibly empty). *)
NoTable == [present |-> FALSE, rows |-> <<>>]
Table(rows) == [present |-> TRUE, rows |-> rows]

(* The sequence table: one row per video, indexed by the video key. *)
VideoTable ==
    [i \in DOMAIN VideoIndex |->
        [index |-> VideoIndex[i], name |-> VideoNames[i], nframes |-> MaxFrame + 1]]

(* The frame tables explored: row i has index ImageIndex[i], a frame number *)
(* (possibly missing), the key of its video and its pitch lines (possibly  *)
(* missing); the table has an "id" column, equal to the index, or none     *)
(* (id_columns says which of the two are explored).                        *)
ImageRows(i, frames, lineses) ==
    {[index |-> ImageIndex[i], frame |-> fr, video_id |-> v, lines |-> ln,
      parameters |-> Some(ImageIndex[i])] :
        fr \in frames, v \in SeqRange(VideoIndex), ln \in lineses}

RECURSIVE ImageTablesUpTo(_, _, _)
ImageTablesUpTo(n, frames, lineses) ==
    IF n = 0 THEN {<<>>}
    ELSE {Append(t, r) : t \in ImageTablesUpTo(n - 1, frames, lineses),
                         r \in ImageRows(n, frames, lineses)}

ImageTables(frames, lineses, id_columns) ==
    LET base == ImageTablesUpTo(Len(ImageIndex), frames, lineses)
    IN  (IF FALSE \in id_columns THEN base ELSE {})
        \cup (IF TRUE \in id_columns
              THEN {assign_id_from_index(t) : t \in base} ELSE {})

AllFrames == {None} \cup {Some(f) : f \in 0..MaxFrame}

(* The detection tables explored.  A row carries the columns the encoders  *)
(* read: track_id, bbox_ltwh, bbox_pitch, role, jersey_number, team,       *)
(* image_id, video_id and category_id in soccernet_encoding, bbox_conf in  *)
(* save_in_mot_challenge_format.  Row k has index label DetLabel(k), and   *)
(* at most one of its nullable cells is missing.                           *)
DetLabel(k) == IF k = 1 THEN 9 ELSE 10 * (k - 1)

DetRow(k, image_id, video_id, missing) ==
    [index |-> DetLabel(k),
     image_id |-> image_id,
     video_id |-> video_id,
     track_id |-> IF missing = "track_id" THEN None ELSE Some(7),
     bbox_ltwh |-> IF missing = "bbox_ltwh" THEN None
                   ELSE Some(<<10 * k, 20, 30, 40>>),
     bbox_pitch |-> IF missing = "bbox_pitch" THEN None
                    ELSE Some([x_bottom_middle |-> k, y_bottom_middle |-> k]),
     bbox_conf |-> 1,
     category_id |-> 1,
     role |-> Some("player"),
     jersey_number |-> IF missing = "jersey_number" THEN None ELSE Some(10),
     team |-> Some("left")]

(* A detection's own video_id is the video of the frame it refers to (the  *)
(* first video when the frame is unknown).                                 *)
VideoOf(images, image_id) ==
    IF \E i \in DOMAIN images : images[i].index = image_id
    THEN images[CHOOSE i \in DOMAIN images : images[i].index = image_id].video_id
    ELSE VideoIndex[1]

RECURSIVE DetTablesOfLen(_, _, _, _)
DetTablesOfLen(n, images, image_ids, missings) ==
    IF n = 0 THEN {<<>>}
    ELSE {Append(t, DetRow(n, i, VideoOf(images, i), m)) :
            t \in DetTablesOfLen(n - 1, images, image_ids, missings),
            i \in image_ids, m \in missings}

DetTables(maxlen, images, image_ids, missings) ==
    UNION {DetTablesOfLen(n, images, image_ids, missings) : n \in 0..maxlen}

EvalSet == "val"
DatasetNames == {"MotChallenge2DBox", "SoccerNetGS"}
BBoxColumns == {"bbox_ltwh"}

(* cfg.dataset: the two folders, and with them or without them keys that   *)
(* replace what run has put into the dataset description.                  *)
FolderCfg == [TRACKERS_FOLDER |-> "TRACKERS_FOLDER", GT_FOLDER |-> "GT_FOLDER"]
DatasetCfgs ==
    {FolderCfg,
     [TRACKERS_FOLDER |-> "TRACKERS_FOLDER", GT_FOLDER |-> "GT_FOLDER",
      BENCHMARK |-> "MOT17", SEQ_INFO |-> [x |-> 1]]}

(* cfg.dataset.TRACKERS_FOLDER / f"{class name}-{eval_set}" / tracker_name *)
PredFolder(dataset_name) ==
    <<FolderCfg.TRACKERS_FOLDER, dataset_name \o "-" \o EvalSet, "tracklab">>

(* cfg.dataset.GT_FOLDER / f"{dataset name}-{eval_set}" *)
GtFolder(dataset_name) ==
    <<FolderCfg.GT_FOLDER, dataset_name \o "-" \o EvalSet>>

(* A file system left by an earlier run: the predictions folder exists and *)
(* holds a file for the first video; the ground-truth folder does not     *)
(* exist yet.                                                              *)
StaleFS(dataset_name, ext) ==
    WriteFile(makedirs(EmptyFS, PredFolder(dataset_name)),
              Append(PredFolder(dataset_name), VideoNames[1] \o ext),
              StaleContent)

NoCall == [fn |-> "none", save_folder |-> <<>>, is_ground_truth |-> FALSE,
           save_classes |-> FALSE, save_zip |-> FALSE]
NoCfg == [dataset_name |-> "none", dataset |-> FolderCfg,
          save_gt |-> FALSE, metrics |-> <<>>,
          bbox_column_for_eval |-> "bbox_ltwh"]
NoMetric == [name |-> <<>>, value |-> 0, scale_factor |-> 1]
NoRendered == [kind |-> "none", value |-> 0]

-----------------------------------------------------------------------------
(* Direct calls of save_in_mot_challenge_format. *)

InitMot ==
    /\ image_metadatas \in ImageTables(AllFrames, {None}, {FALSE})
    /\ detections_pred \in DetTables(MaxDets, image_metadatas,
                              SeqRange(ImageIndex) \cup {UnknownImage},
                              {"none", "track_id", "bbox_ltwh"})
    /\ detections_gt = NoTable
    /\ video_metadatas = VideoTable
    /\ cfg = NoCfg
    /\ fs = StaleFS("MotChallenge2DBox", ".txt")
    /\ pc = "idle"
    /\ call = NoCall
    /\ engine_calls = <<>>
    /\ wandb_log = <<>>
    /\ trace = <<>>
    /\ metric = NoMetric
    /\ rendered = NoRendered

CallMot(is_ground_truth, save_classes, bbox_column) ==
    LET save_folder == IF is_ground_truth THEN GtFolder("MotChallenge2DBox")
                       ELSE PredFolder("MotChallenge2DBox")
    IN  /\ pc = "idle"
        /\ fs' = save_in_mot_challenge_format(fs, detections_pred, image_metadatas,
                     video_metadatas, save_folder, bbox_column, save_classes,
                     is_ground_truth)
        /\ image_metadatas' = mot_image_metadatas_after(image_metadatas)
        /\ call' = [fn |-> "save_in_mot_challenge_format",
                    save_folder |-> save_folder,
                    is_ground_truth |-> is_ground_truth,
                    save_classes |-> save_classes,
                    save_zip |-> FALSE]
        /\ pc' = "returned"
        /\ UNCHANGED <<detections_pred, detections_gt, video_metadatas, cfg,
                       engine_calls, wandb_log, trace, metric, rendered>>

NextMot ==
    \E is_ground_truth \in BOOLEAN, save_classes \in BOOLEAN, bbox_column \in BBoxColumns :
        CallMot(is_ground_truth, save_classes, bbox_column)

SpecMot == InitMot /\ [][NextMot]_vars


-----------------------------------------------------------------------------
(* Properties of the line format, stated on the caller's tables. *)

MotReturned == pc = "returned" /\ call.fn = "save_in_mot_challenge_format"

(* The frame rows a detection refers to. *)
FramesOf(d) ==
    {i \in DOMAIN image_metadatas : image_metadatas[i].index = d.image_id}

(* The detections (positions in the caller's table) that belong to video v *)
(* and have a frame number, a track_id and a bbox.                         *)
Retained(v) ==
    {k \in DOMAIN detections_pred :
        /\ notna(detections_pred[k].track_id)
        /\ notna(detections_pred[k].bbox_ltwh)
        /\ \E i \in FramesOf(detections_pred[k]) :
              /\ image_metadatas[i].video_id = v
              /\ notna(image_metadatas[i].frame)}

(* The input frame number of detection k. *)
InputFrame(k) ==
    Val(image_metadatas[CHOOSE i \in FramesOf(detections_pred[k]) : TRUE].frame)

(* The detection a written line comes from: bb_left identifies it. *)
DetOfLine(line) ==
    CHOOSE k \in DOMAIN detections_pred :
        /\ notna(detections_pred[k].bbox_ltwh)
        /\ Val(detections_pred[k].bbox_ltwh)[1] = line[3]

MotPath(i) == Append(call.save_folder, VideoNames[i] \o ".txt")
MotWritten(i) == MotPath(i) \in DOMAIN fs.files /\ fs.files[MotPath(i)].fmt = "csv"
MotBody(i) == fs.files[MotPath(i)].body
MinInputFrame(v) == SetMin({InputFrame(k) : k \in Retained(v)})

(* C3: in every file written by save_in_mot_challenge_format, if the       *)
(* minimum input frame index of the sequence's retained rows is 0 every    *)
(* written frame value is the input frame value plus 1, and if it is 1     *)
(* every written frame value is the input frame value; each sequence       *)
(* decides on its own rows.                                                *)
C3_FrameShiftPerSequence ==
    MotReturned =>
        \A i \in DOMAIN VideoIndex :
            Retained(VideoIndex[i]) # {} =>
                /\ MotWritten(i)
                /\ Len(MotBody(i)) > 0
                /\ MinInputFrame(VideoIndex[i]) = 0 =>
                      \A n \in DOMAIN MotBody(i) :
                          MotBody(i)[n][1] = InputFrame(DetOfLine(MotBody(i)[n])) + 1
                /\ MinInputFrame(VideoIndex[i]) = 1 =>
                      \A n \in DOMAIN MotBody(i) :
                          MotBody(i)[n][1] = InputFrame(DetOfLine(MotBody(i)[n]))

(* Witness of C3: one call wrote a sequence starting at frame 0 (shifted)  *)
(* and another starting at frame 1 (unshifted).                            *)
C3_Witness ==
    /\ MotReturned
    /\ \E i, j \in DOMAIN VideoIndex :
          /\ Retained(VideoIndex[i]) # {} /\ MinInputFrame(VideoIndex[i]) = 0
          /\ Retained(VideoIndex[j]) # {} /\ MinInputFrame(VideoIndex[j]) = 1
          /\ MotBody(i)[1][1] = 1
          /\ MotBody(j)[1][1] = 1

(* C4: after save_in_mot_challenge_format every sequence has a file        *)
(* <video-name>.txt holding one line per retained detection of that        *)
(* sequence and no other line, in ascending frame order; a sequence        *)
(* without retained rows has an empty file.                                *)
C4_OneLinePerRetainedDetection ==
    MotReturned =>
        \A i \in DOMAIN VideoIndex :
            /\ MotWritten(i)
            /\ Len(MotBody(i)) = Cardinality(Retained(VideoIndex[i]))
            /\ {MotBody(i)[n][3] : n \in DOMAIN MotBody(i)}
                 = {Val(detections_pred[k].bbox_ltwh)[1] : k \in Retained(VideoIndex[i])}
            /\ \A m, n \in DOMAIN MotBody(i) :
                  m < n => MotBody(i)[m][1] <= MotBody(i)[n][1]

(* Witness of C4: a sequence without rows got an empty file in place of    *)
(* the file an earlier run left, and the other sequence's two lines had to *)
(* be reordered.                                                           *)
C4_Witness ==
    /\ MotReturned
    /\ ~call.is_ground_truth
    /\ MotWritten(1) /\ MotBody(1) = <<>>
    /\ MotWritten(2) /\ Len(MotBody(2)) = 2
    /\ MotBody(2)[1][1] < MotBody(2)[2][1]
    /\ MotBody(2)[1][3] > MotBody(2)[2][3]

(* C6 as stated: a ground-truth call of save_in_mot_challenge_format       *)
(* leaves the file system as it was.                                       *)
C6_GroundTruthCallIsNoOp ==
    [][(pc = "idle" /\ call'.fn = "save_in_mot_challenge_format"
          /\ call'.is_ground_truth) => fs' = fs]_vars

(* C6 amended: a ground-truth call of save_in_mot_challenge_format creates *)
(* the save folder and writes, for every sequence, the file                *)
(* <video-name>.txt with one line per retained detection.                  *)
C6_GroundTruthCallWrites ==
    (MotReturned /\ call.is_ground_truth) =>
        /\ call.save_folder \in fs.dirs
        /\ \A i \in DOMAIN VideoIndex :
              /\ MotWritten(i)
              /\ Len(MotBody(i)) = Cardinality(Retained(VideoIndex[i]))

(* Witness of C6 amended: a ground-truth call wrote a non-empty file into  *)
(* a folder that did not exist before.                                     *)
C6_Witness ==
    /\ MotReturned
    /\ call.is_ground_truth
    /\ call.save_folder = GtFolder("MotChallenge2DBox")
    /\ \E i \in DOMAIN VideoIndex : MotWritten(i) /\ Len(MotBody(i)) > 0

(* C7 as stated: an encoder call leaves the caller's detection, frame and  *)
(* sequence tables with the same columns and values.                       *)
C7_InputsUnchanged ==
    [][(pc = "idle" /\ pc' = "returned") =>
          /\ detections_pred' = detections_pred
          /\ image_metadatas' = image_metadatas
          /\ video_metadatas' = video_metadatas]_vars


-----------------------------------------------------------------------------
(* Document format: soccernet_encoding and save_in_soccernet_format. *)

(* str(n) for a natural number: its decimal digits. *)
RECURSIVE Str(_)
Str(n) == IF n < 10 THEN <<n>> ELSE Str(n \div 10) \o <<n % 10>>

(* Python's <= on two texts made of digits. *)
RECURSIVE TextLeq(_, _)
TextLeq(a, b) ==
    IF a = <<>> THEN TRUE
    ELSE IF b = <<>> THEN FALSE
    ELSE IF a[1] < b[1] THEN TRUE
    ELSE IF a[1] > b[1] THEN FALSE
    ELSE TextLeq(Tail(a), Tail(b))

(* The columns whose cells are never missing in the tables explored are    *)
(* stored bare; Cell gives every column's cell as a nullable cell.         *)
BareColumns == {"image_id", "video_id", "bbox_conf", "category_id", "id",
                "supercategory"}
Cell(row, k) == IF k \in BareColumns THEN Some(row[k]) ELSE row[k]

(* Mutant of dropna_object: a detection without bbox_pitch is kept. *)
dropna_object_without_pitch(df) ==
    SelectSeq(df, LAMBDA r : notna(r.track_id) /\ notna(r.bbox_ltwh))

(* dataframe.dropna(subset=["track_id", "bbox_ltwh", "bbox_pitch"], how="any") *)
dropna_object(df) ==
    SelectSeq(df, LAMBDA r : /\ notna(r.track_id)
                             /\ notna(r.bbox_ltwh)
                             /\ notna(r.bbox_pitch))

transform_bbox_image(row) ==
    [x |-> row[1], y |-> row[2], w |-> row[3], h |-> row[4]]

(* rename(columns={"bbox_ltwh": "bbox_image", "jersey_number": "jersey"}) *)
RenamedColumn(k) ==
    CASE k = "bbox_ltwh" -> "bbox_image"
      [] k = "jersey_number" -> "jersey"
      [] OTHER -> k

rename_object_columns(r) ==
    [k \in {RenamedColumn(c) : c \in DOMAIN r} |->
        r[CHOOSE c \in DOMAIN r : RenamedColumn(c) = k]]

ObjectColumns == {"id", "image_id", "video_id", "track_id", "supercategory",
                  "category_id", "attributes", "bbox_image", "bbox_pitch"}
CameraColumns == {"id", "image_id", "video_id", "supercategory", "category_id",
                  "parameters", "relative_mean_reproj", "accuracy@5"}
PitchColumns == {"id", "image_id", "video_id", "supercategory", "category_id",
                 "lines"}

(* One "object" row: the renamed row with its attributes sub-mapping (the  *)
(* cells of whichever of role, jersey, team are columns, missing cells     *)
(* included), id taken from the index, projected on the object columns,    *)
(* bbox_image re-encoded, and video_id, image_id, id turned into text.     *)
encode_object_row(r) ==
    LET rn == rename_object_columns(r)
        attributes == Project(rn, {"role", "jersey", "team"})
        full == [k \in DOMAIN rn \cup {"supercategory", "attributes", "id"} |->
                    CASE k = "supercategory" -> "object"
                      [] k = "attributes" -> Some(attributes)
                      [] k = "id" -> Str(rn.index)
                      [] k = "video_id" -> Str(rn.video_id)
                      [] k = "image_id" -> Str(rn.image_id)
                      [] k = "bbox_image" -> Some(transform_bbox_image(Val(rn.bbox_image)))
                      [] OTHER -> rn[k]]
    IN  Project(full, ObjectColumns \cup {"index"})

(* One "camera" or "pitch" row of the frame table. *)
encode_frame_row(r, supercategory, category_id, suffix, columns) ==
    LET full == [k \in DOMAIN r \cup {"supercategory", "image_id", "category_id", "id"} |->
                    CASE k = "supercategory" -> supercategory
                      [] k = "image_id" -> Str(r.index)
                      [] k = "category_id" -> category_id
                      [] k = "id" -> Str(r.index) \o suffix
                      [] k = "video_id" -> Str(r.video_id)
                      [] OTHER -> r[k]]
    IN  Project(full, columns \cup {"index"})

(* soccernet_encoding(dataframe, supercategory).  Arrays and lists are     *)
(* both tuples here and NaN and None are both the missing cell, so the     *)
(* first two rewrites of the table leave it as it is.                      *)
soccernet_encoding(dataframe, supercategory) ==
    CASE supercategory = "object" ->
            LET kept == dropna_object(dataframe)
            IN  [i \in DOMAIN kept |-> encode_object_row(kept[i])]
      [] supercategory = "camera" ->
            [i \in DOMAIN dataframe |->
                encode_frame_row(dataframe[i], "camera", 6, <<0, 1>>, CameraColumns)]
      [] supercategory = "pitch" ->
            [i \in DOMAIN dataframe |->
                encode_frame_row(dataframe[i], "pitch", 5, <<0, 0>>, PitchColumns)]

(* pd.concat(tables, ignore_index=True): the rows in order, re-indexed     *)
(* from 0, every row given every column (missing where it had none).       *)
concat(rows) ==
    LET columns == UNION {DOMAIN rows[i] : i \in DOMAIN rows}
    IN  [i \in DOMAIN rows |->
            [k \in columns |->
                IF k = "index" THEN i - 1
                ELSE IF k \in DOMAIN rows[i] THEN Cell(rows[i], k)
                ELSE None]]

(* Mutant of sort_values_id: the rows are left in the order of the concat. *)
sort_values_id_unsorted(df) == df

(* video_predictions_df.sort_values(by="id"): id is text; rows of equal id *)
(* keep their order.                                                       *)
RECURSIVE sort_values_id(_)
sort_values_id(df) ==
    IF df = <<>> THEN <<>>
    ELSE LET n == Len(df)
             sorted == sort_values_id(SubSeq(df, 1, n - 1))
             x == df[n]
             k == Cardinality({i \in DOMAIN sorted :
                                 TextLeq(Val(sorted[i].id), Val(x.id))})
         IN  SubSeq(sorted, 1, k) \o <<x>> \o SubSeq(sorted, k + 1, Len(sorted))

(* Mutant of prediction_record: missing cells are written too. *)
prediction_record_keep_nulls(m) == [k \in DOMAIN m \ {"index"} |-> m[k]]

(* {k: int(v) if k == 'track_id' else v for k, v in m.items()              *)
(*     if np.all(pd.notna(v))}: the record keeps the columns whose cell is *)
(* not missing; a mapping (attributes, bbox_image) is never missing,       *)
(* whatever it holds.  A cell <<>> in a written record is a JSON null.     *)
prediction_record(m) ==
    [k \in {c \in DOMAIN m \ {"index"} : notna(m[c])} |-> m[k]]

(* The body of the loop over video_metadatas.iterrows() for one video. *)
write_soccernet_video(f, video, predictions, save_path, save_zip) ==
    LET file_path == Append(save_path, video.name \o ".json")
        zf_save_path == Append(SubSeq(save_path, 1, Len(save_path) - 2),
                               save_path[Len(save_path) - 1] \o ".zip")
        video_predictions_df ==
            SelectSeq(predictions, LAMBDA r : r.video_id = Some(Str(video.index)))
        sorted == sort_values_id(video_predictions_df)
        content == [fmt |-> "json",
                    body |-> [i \in DOMAIN sorted |-> prediction_record(sorted[i])]]
        written == WriteFile(f, file_path, content)
    IN  IF video_predictions_df # <<>>
        THEN IF save_zip
             THEN ZipAppend(written, zf_save_path,
                      [arcname |-> <<save_path[Len(save_path)], video.name \o ".json">>,
                       content |-> content])
             ELSE written
        ELSE f

RECURSIVE write_soccernet_videos(_, _, _, _, _)
write_soccernet_videos(f, videos, predictions, save_path, save_zip) ==
    IF videos = <<>> THEN f
    ELSE write_soccernet_videos(
             write_soccernet_video(f, Head(videos), predictions, save_path, save_zip),
             Tail(videos), predictions, save_path, save_zip)

(* The file system after save_in_soccernet_format; the caller's tables are *)
(* copied before they are encoded.                                         *)
save_in_soccernet_format(f, detections, image_metadatas_arg, video_metadatas_arg, save_folder, is_ground_truth, save_zip) ==
    IF is_ground_truth THEN f
    ELSE write_soccernet_videos(
             makedirs(f, save_folder), video_metadatas_arg,
             concat(soccernet_encoding(detections, "object")
                    \o soccernet_encoding(image_metadatas_arg, "camera")
                    \o soccernet_encoding(image_metadatas_arg, "pitch")),
             save_folder, save_zip)

-----------------------------------------------------------------------------
(* Direct calls of save_in_soccernet_format. *)

InitSoccer ==
    /\ image_metadatas \in ImageTables({Some(0)}, {None, Some("lines")}, {TRUE})
    /\ detections_pred \in DetTables(MaxDets, image_metadatas, SeqRange(ImageIndex),
                              {"none", "track_id", "bbox_ltwh", "bbox_pitch",
                               "jersey_number"})
    /\ detections_gt = NoTable
    /\ video_metadatas = VideoTable
    /\ cfg = NoCfg
    /\ fs = StaleFS("SoccerNetGS", ".json")
    /\ pc = "idle"
    /\ call = NoCall
    /\ engine_calls = <<>>
    /\ wandb_log = <<>>
    /\ trace = <<>>
    /\ metric = NoMetric
    /\ rendered = NoRendered

CallSoccer(is_ground_truth, save_zip) ==
    LET save_folder == IF is_ground_truth THEN GtFolder("SoccerNetGS")
                       ELSE PredFolder("SoccerNetGS")
    IN  /\ pc = "idle"
        /\ fs' = save_in_soccernet_format(fs, detections_pred, image_metadatas,
                     video_metadatas, save_folder, is_ground_truth, save_zip)
        /\ call' = [fn |-> "save_in_soccernet_format",
                    save_folder |-> save_folder,
                    is_ground_truth |-> is_ground_truth,
                    save_classes |-> FALSE,
                    save_zip |-> save_zip]
        /\ pc' = "returned"
        /\ UNCHANGED <<detections_pred, detections_gt, image_metadatas,
                       video_metadatas, cfg, engine_calls, wandb_log, trace,
                       metric, rendered>>

NextSoccer ==
    \E is_ground_truth \in BOOLEAN, save_zip \in BOOLEAN :
        CallSoccer(is_ground_truth, save_zip)

SpecSoccer == InitSoccer /\ [][NextSoccer]_vars


-----------------------------------------------------------------------------
(* Properties of the document format, stated on the caller's tables. *)

SoccerSaved ==
    pc = "returned" /\ call.fn = "save_in_soccernet_format" /\ ~call.is_ground_truth

JsonPath(i) == Append(call.save_folder, VideoNames[i] \o ".json")
JsonWritten(i) == JsonPath(i) \in DOMAIN fs.files /\ fs.files[JsonPath(i)].fmt = "json"
JsonBody(i) == fs.files[JsonPath(i)].body

(* The records of all written documents, as (video position, rank). *)
WrittenRecords ==
    UNION {{<<i, n>> : n \in DOMAIN JsonBody(i)} :
              i \in {j \in DOMAIN VideoIndex : JsonWritten(j)}}
RecordAt(p) == JsonBody(p[1])[p[2]]
ObjectEntries == {p \in WrittenRecords : RecordAt(p).supercategory = Some("object")}

HasAllThree(d) == notna(d.track_id) /\ notna(d.bbox_ltwh) /\ notna(d.bbox_pitch)

(* C5: in the written documents there is an "object" entry for a detection *)
(* exactly when the detection has a track_id, a bbox_ltwh and a            *)
(* bbox_pitch; every object entry carries all three, and the number of     *)
(* object entries is the number of such detections.                        *)
C5_ObjectEntriesHaveAllThree ==
    SoccerSaved =>
        /\ \A k \in DOMAIN detections_pred :
              HasAllThree(detections_pred[k]) <=>
                  \E p \in ObjectEntries :
                      RecordAt(p).id = Some(Str(detections_pred[k].index))
        /\ \A p \in ObjectEntries :
              /\ {"track_id", "bbox_image", "bbox_pitch"} \subseteq DOMAIN RecordAt(p)
              /\ notna(RecordAt(p).track_id)
              /\ notna(RecordAt(p).bbox_image)
              /\ notna(RecordAt(p).bbox_pitch)
        /\ Cardinality(ObjectEntries)
             = Cardinality({k \in DOMAIN detections_pred :
                               HasAllThree(detections_pred[k])})

(* Witness of C5: of two detections, the one without track_id has no       *)
(* entry and the other has one.                                            *)
C5_Witness ==
    /\ SoccerSaved
    /\ Len(detections_pred) = 2
    /\ detections_pred[1].track_id = None
    /\ HasAllThree(detections_pred[2])
    /\ Cardinality(ObjectEntries) = 1

(* C8 as stated: no written record holds a null, neither as a field nor    *)
(* inside the attributes sub-mapping.                                      *)
C8_NoNullAnywhere ==
    SoccerSaved =>
        \A p \in WrittenRecords :
            /\ \A k \in DOMAIN RecordAt(p) : notna(RecordAt(p)[k])
            /\ "attributes" \in DOMAIN RecordAt(p) =>
                  \A a \in DOMAIN Val(RecordAt(p).attributes) :
                      notna(Val(RecordAt(p).attributes)[a])

(* The frame row a camera or pitch record was made from. *)
FrameOfRecord(rec) ==
    CHOOSE i \in DOMAIN image_metadatas :
        Some(Str(image_metadatas[i].index)) = rec.image_id

(* The detection an object record was made from. *)
DetOfRecord(rec) ==
    CHOOSE k \in DOMAIN detections_pred :
        Some(Str(detections_pred[k].index)) = rec.id

(* C8 amended: no field of a written record is null, and a field that is   *)
(* missing in the encoded row is absent from the record; the attributes    *)
(* sub-mapping is written with the cells of role, jersey and team as they  *)
(* are, a missing one as null.                                             *)
C8_NoNullField ==
    SoccerSaved =>
        \A p \in WrittenRecords :
            LET rec == RecordAt(p)
            IN  /\ \A k \in DOMAIN rec : notna(rec[k])
                /\ rec.supercategory = Some("pitch") =>
                      /\ ("lines" \in DOMAIN rec)
                           = notna(image_metadatas[FrameOfRecord(rec)].lines)
                      /\ DOMAIN rec \cap {"track_id", "attributes", "bbox_image",
                                          "bbox_pitch", "parameters"} = {}
                /\ rec.supercategory = Some("camera") =>
                      DOMAIN rec \cap {"track_id", "attributes", "bbox_image",
                                       "bbox_pitch", "lines"} = {}
                /\ rec.supercategory = Some("object") =>
                      /\ DOMAIN rec \cap {"lines", "parameters"} = {}
                      /\ rec.attributes =
                            Some([role |-> detections_pred[DetOfRecord(rec)].role,
                                  jersey |-> detections_pred[DetOfRecord(rec)].jersey_number,
                                  team |-> detections_pred[DetOfRecord(rec)].team])

(* Witness of C8 amended: a pitch record written without its missing lines *)
(* and an object record whose attributes hold a null jersey.               *)
C8_Witness ==
    /\ SoccerSaved
    /\ \E p \in WrittenRecords :
          /\ RecordAt(p).supercategory = Some("pitch")
          /\ "lines" \notin DOMAIN RecordAt(p)
    /\ \E p \in ObjectEntries : Val(RecordAt(p).attributes).jersey = None

(* The ids of the records that belong to the video at position i. *)
ExpectedIds(i) ==
    {Str(detections_pred[k].index) :
        k \in {j \in DOMAIN detections_pred :
                 /\ HasAllThree(detections_pred[j])
                 /\ detections_pred[j].video_id = VideoIndex[i]}}
    \cup UNION {{Str(image_metadatas[k].index) \o <<0, 1>>,
                 Str(image_metadatas[k].index) \o <<0, 0>>} :
                   k \in {j \in DOMAIN image_metadatas :
                            image_metadatas[j].video_id = VideoIndex[i]}}

(* The document of the video at position i holds exactly its records, in   *)
(* ascending order of id (as text).                                        *)
DocumentHoldsRecords(i) ==
    /\ JsonWritten(i)
    /\ Len(JsonBody(i)) = Cardinality(ExpectedIds(i))
    /\ {JsonBody(i)[n].id : n \in DOMAIN JsonBody(i)} = {Some(t) : t \in ExpectedIds(i)}
    /\ \A n \in DOMAIN JsonBody(i) : JsonBody(i)[n].video_id = Some(Str(VideoIndex[i]))
    /\ \A m, n \in DOMAIN JsonBody(i) :
          m < n => TextLeq(Val(JsonBody(i)[m].id), Val(JsonBody(i)[n].id))

(* The file system before the call, in every behaviour of SpecSoccer. *)
FsBeforeSoccer == StaleFS("SoccerNetGS", ".json")

(* C9 as stated: after a predictions call every sequence has its document, *)
(* a sequence without records too.                                         *)
C9_EverySequenceHasDocument ==
    SoccerSaved => \A i \in DOMAIN VideoIndex : DocumentHoldsRecords(i)

(* C9 amended: after a predictions call every sequence with at least one   *)
(* record has its document, holding exactly its records in ascending text  *)
(* order of id; for a sequence without records nothing is written: its     *)
(* path is as it was before the call.                                      *)
C9_DocumentPerNonEmptySequence ==
    SoccerSaved =>
        \A i \in DOMAIN VideoIndex :
            IF ExpectedIds(i) # {}
            THEN DocumentHoldsRecords(i)
            ELSE /\ (JsonPath(i) \in DOMAIN fs.files)
                      = (JsonPath(i) \in DOMAIN FsBeforeSoccer.files)
                 /\ JsonPath(i) \in DOMAIN fs.files =>
                      fs.files[JsonPath(i)] = FsBeforeSoccer.files[JsonPath(i)]

(* Witness of C9 amended: the first sequence has no record and keeps the   *)
(* file an earlier run left; the second has a document in which id "9"     *)
(* comes after id "201".                                                   *)
C9_Witness ==
    /\ SoccerSaved
    /\ ExpectedIds(1) = {}
    /\ fs.files[JsonPath(1)] = StaleContent
    /\ JsonWritten(2)
    /\ Len(JsonBody(2)) = 5
    /\ JsonBody(2)[4].id = Some(<<2, 0, 1>>)
    /\ JsonBody(2)[5].id = Some(<<9>>)


-----------------------------------------------------------------------------
(* TrackEvalEvaluator.run. *)

(* The names trackeval.metrics resolves, and the metric names explored. *)
MetricCatalog == {"HOTA", "CLEAR", "Identity"}
MetricNames == {"HOTA", "CLEAR", "Bogus"}

RECURSIVE SeqsOfLen(_, _)
SeqsOfLen(S, n) ==
    IF n = 0 THEN {<<>>}
    ELSE {Append(q, x) : q \in SeqsOfLen(S, n - 1), x \in S}

SeqsUpTo(S, n) == UNION {SeqsOfLen(S, k) : k \in 0..n}

(* save_functions[name](...): the file system after the selected encoder;  *)
(* run leaves save_zip at its default.                                     *)
save_functions(name, f, detections, image_metadatas_arg, video_metadatas_arg, save_folder, bbox_column, save_classes, is_ground_truth) ==
    CASE name = "MotChallenge2DBox" ->
            save_in_mot_challenge_format(f, detections, image_metadatas_arg,
                video_metadatas_arg, save_folder, bbox_column, save_classes,
                is_ground_truth)
      [] name = "SoccerNetGS" ->
            save_in_soccernet_format(f, detections, image_metadatas_arg,
                video_metadatas_arg, save_folder, is_ground_truth, TRUE)

(* The caller's frame table after the selected encoder. *)
image_metadatas_after(name, image_metadatas_arg, is_ground_truth) ==
    IF name = "MotChallenge2DBox"
    THEN mot_image_metadatas_after(image_metadatas_arg)
    ELSE image_metadatas_arg

(* Mutant of no_ground_truth: an empty table is not taken for "no ground   *)
(* truth".                                                                 *)
no_ground_truth_none_only(gt) == ~gt.present

(* tracker_state.detections_gt is None or len(tracker_state.detections_gt) == 0 *)
no_ground_truth(gt) == ~gt.present \/ Len(gt.rows) = 0

(* Mutant of build_metrics_list: the loop ends at the first unknown name. *)
RECURSIVE build_metrics_list_stop_at_unknown(_)
build_metrics_list_stop_at_unknown(metrics) ==
    IF metrics = <<>> \/ Head(metrics) \notin MetricCatalog THEN <<>>
    ELSE <<Head(metrics)>> \o build_metrics_list_stop_at_unknown(Tail(metrics))

(* The loop over cfg.metrics: a name getattr resolves is appended, a name  *)
(* that raises AttributeError is skipped with a warning.                   *)
RECURSIVE build_metrics_list(_)
build_metrics_list(metrics) ==
    IF metrics = <<>> THEN <<>>
    ELSE (IF Head(metrics) \in MetricCatalog THEN <<Head(metrics)>> ELSE <<>>)
         \o build_metrics_list(Tail(metrics))

(* trackeval_dataset_class.get_default_dataset_config(): the defaults of   *)
(* the external dataset class, each held as the text "default".            *)
default_dataset_config ==
    [GT_FOLDER |-> "default", TRACKERS_FOLDER |-> "default",
     GT_LOC_FORMAT |-> "default", SEQ_INFO |-> "default", BENCHMARK |-> "default"]

(* d[key] = value *)
SetItem(d, key, value) ==
    [k \in DOMAIN d \cup {key} |-> IF k = key THEN value ELSE d[k]]

(* for key, value in o.items(): d[key] = value *)
SetItems(d, o) ==
    [k \in DOMAIN d \cup DOMAIN o |-> IF k \in DOMAIN o THEN o[k] ELSE d[k]]

(* video_metadatas.set_index('name')['nframes'].to_dict(): a name listed   *)
(* twice keeps its last nframes.                                           *)
seq_info(videos) ==
    [n \in {videos[i].name : i \in DOMAIN videos} |->
        LET last == CHOOSE i \in DOMAIN videos :
                        /\ videos[i].name = n
                        /\ \A j \in DOMAIN videos : videos[j].name = n => j <= i
        IN  videos[last].nframes]

(* Lines 73-81: the dataset description handed to the dataset class: the   *)
(* class defaults, SEQ_INFO and BENCHMARK, then every key of cfg.dataset,  *)
(* then the ground-truth location when the ground truth was not saved.     *)
dataset_config(c, videos) ==
    LET with_seq_info == SetItem(default_dataset_config, "SEQ_INFO", seq_info(videos))
        with_benchmark == SetItem(with_seq_info, "BENCHMARK", c.dataset_name)
        overridden == SetItems(with_benchmark, c.dataset)
    IN  IF ~c.save_gt
        THEN SetItem(SetItem(overridden, "GT_FOLDER", "dataset_path"),
                     "GT_LOC_FORMAT", "{gt_folder}/{seq}/Labels-GameState.json")
        ELSE overridden

InitRun ==
    /\ cfg \in [dataset_name : DatasetNames,
                dataset : DatasetCfgs,
                save_gt : BOOLEAN,
                metrics : SeqsUpTo(MetricNames, MaxMetrics),
                bbox_column_for_eval : BBoxColumns]
    /\ image_metadatas \in ImageTables({Some(0)}, {Some("lines")}, BOOLEAN)
    /\ detections_pred \in DetTables(1, image_metadatas, SeqRange(ImageIndex),
                                     {"none", "track_id"})
    /\ detections_gt \in {NoTable} \cup
          {Table(t) : t \in DetTables(1, image_metadatas, SeqRange(ImageIndex),
                                      {"none"})}
    /\ video_metadatas = VideoTable
    /\ fs = EmptyFS
    /\ pc = "init"
    /\ call = NoCall
    /\ engine_calls = <<>>
    /\ wandb_log = <<>>
    /\ trace = <<>>
    /\ metric = NoMetric
    /\ rendered = NoRendered

(* Lines 34-50: the predictions go through the encoder the dataset name    *)
(* selects.                                                                *)
RunSavePredictions ==
    LET save_classes == cfg.dataset_name # "MotChallenge2DBox"
    IN  /\ pc = "init"
        /\ fs' = save_functions(cfg.dataset_name, fs, detections_pred, image_metadatas,
                     video_metadatas, PredFolder(cfg.dataset_name),
                     cfg.bbox_column_for_eval, save_classes, FALSE)
        /\ image_metadatas' = image_metadatas_after(cfg.dataset_name, image_metadatas, FALSE)
        /\ call' = [fn |-> "save_functions", save_folder |-> PredFolder(cfg.dataset_name),
                    is_ground_truth |-> FALSE, save_classes |-> save_classes,
                    save_zip |-> TRUE]
        /\ trace' = Append(trace, "save_predictions")
        /\ pc' = "predictions_written"
        /\ UNCHANGED <<detections_pred, detections_gt, video_metadatas, cfg,
                       engine_calls, wandb_log, metric, rendered>>

(* Lines 52-55: no ground truth, the run warns and returns. *)
RunStopNoGroundTruth ==
    /\ pc = "predictions_written"
    /\ no_ground_truth(detections_gt)
    /\ pc' = "done"
    /\ UNCHANGED <<detections_pred, detections_gt, image_metadatas, video_metadatas,
                   cfg, fs, call, engine_calls, wandb_log, trace, metric, rendered>>

(* Lines 58-67: cfg.save_gt, the ground truth goes through the same        *)
(* encoder with is_ground_truth=True.                                      *)
RunSaveGroundTruth ==
    LET save_classes == cfg.dataset_name # "MotChallenge2DBox"
    IN  /\ pc = "predictions_written"
        /\ ~no_ground_truth(detections_gt)
        /\ cfg.save_gt
        /\ fs' = save_functions(cfg.dataset_name, fs, detections_gt.rows, image_metadatas,
                     video_metadatas, GtFolder(cfg.dataset_name),
                     cfg.bbox_column_for_eval, save_classes, TRUE)
        /\ image_metadatas' = image_metadatas_after(cfg.dataset_name, image_metadatas, TRUE)
        /\ call' = [fn |-> "save_functions", save_folder |-> GtFolder(cfg.dataset_name),
                    is_ground_truth |-> TRUE, save_classes |-> save_classes,
                    save_zip |-> TRUE]
        /\ trace' = Append(trace, "save_gt")
        /\ pc' = "gt_written"
        /\ UNCHANGED <<detections_pred, detections_gt, video_metadatas, cfg,
                       engine_calls, wandb_log, metric, rendered>>

(* Line 58 with cfg.save_gt false. *)
RunSkipGroundTruth ==
    /\ pc = "predictions_written"
    /\ ~no_ground_truth(detections_gt)
    /\ ~cfg.save_gt
    /\ pc' = "gt_skipped"
    /\ UNCHANGED <<detections_pred, detections_gt, image_metadatas, video_metadatas,
                   cfg, fs, call, engine_calls, wandb_log, trace, metric, rendered>>

(* Lines 72-101: dataset description, metrics list, one call of            *)
(* evaluator.evaluate.                                                     *)
RunEvaluate ==
    /\ pc \in {"gt_written", "gt_skipped"}
    /\ engine_calls' = Append(engine_calls,
                          [dataset |-> dataset_config(cfg, video_metadatas),
                           metrics |-> build_metrics_list(cfg.metrics)])
    /\ trace' = Append(trace, "evaluate")
    /\ pc' = "metrics_invoked"
    /\ UNCHANGED <<detections_pred, detections_gt, image_metadatas, video_metadatas,
                   cfg, fs, call, wandb_log, metric, rendered>>

(* Lines 104-106: the SUMMARIES group of the engine's results goes to      *)
(* wandb.log, and run returns.                                             *)
RunLogResults ==
    /\ pc = "metrics_invoked"
    /\ wandb_log' = Append(wandb_log,
                       [group |-> "SUMMARIES", of_call |-> Len(engine_calls)])
    /\ trace' = Append(trace, "log")
    /\ pc' = "done"
    /\ UNCHANGED <<detections_pred, detections_gt, image_metadatas, video_metadatas,
                   cfg, fs, call, engine_calls, metric, rendered>>

NextRun ==
    \/ RunSavePredictions
    \/ RunStopNoGroundTruth
    \/ RunSaveGroundTruth
    \/ RunSkipGroundTruth
    \/ RunEvaluate
    \/ RunLogResults

SpecRun == InitRun /\ [][NextRun]_vars


-----------------------------------------------------------------------------
(* Properties of TrackEvalEvaluator.run. *)

GroundTruthMissing == ~detections_gt.present \/ detections_gt.rows = <<>>

(* What the selected encoder writes: csv lines or JSON documents. *)
SelectedFormat == IF cfg.dataset_name = "MotChallenge2DBox" THEN "csv" ELSE "json"

(* The predictions are on disk, in the format the dataset name selects,    *)
(* and nothing was saved for the ground truth.                             *)
OnlyPredictionsOnDisk ==
    /\ PredFolder(cfg.dataset_name) \in fs.dirs
    /\ GtFolder(cfg.dataset_name) \notin fs.dirs
    /\ DOMAIN fs.files # {}
    /\ \A path \in DOMAIN fs.files :
          /\ SubSeq(path, 1, Len(path) - 1) = PredFolder(cfg.dataset_name)
          /\ fs.files[path].fmt = SelectedFormat

(* C1: when the ground-truth detections are None or empty, run writes the  *)
(* predictions through the selected encoder and then returns: its only     *)
(* step is the predictions save, no ground truth is saved, the engine is   *)
(* not invoked, nothing reaches wandb.log, and once the predictions are    *)
(* written the step that returns is the one that is open.                  *)
C1_NoGroundTruthStopsAfterPredictions ==
    GroundTruthMissing =>
        /\ engine_calls = <<>>
        /\ wandb_log = <<>>
        /\ pc \in {"init", "predictions_written", "done"}
        /\ pc = "predictions_written" => no_ground_truth(detections_gt)
        /\ pc = "predictions_written" => (trace = <<"save_predictions">> /\ OnlyPredictionsOnDisk)
        /\ pc = "done" => (trace = <<"save_predictions">> /\ OnlyPredictionsOnDisk)

(* Witness of C1: a run given an empty (not None) ground-truth table has   *)
(* returned after writing the predictions.                                 *)
C1_Witness ==
    /\ pc = "done"
    /\ detections_gt.present
    /\ detections_gt.rows = <<>>
    /\ trace = <<"save_predictions">>
    /\ OnlyPredictionsOnDisk

ExpectedTrace ==
    <<"save_predictions">> \o (IF cfg.save_gt THEN <<"save_gt">> ELSE <<>>)
        \o <<"evaluate", "log">>

Count(q, x) == Cardinality({i \in DOMAIN q : q[i] = x})

(* C2: with ground truth, the steps of run come in the order predictions   *)
(* save, ground-truth save (taken exactly when save_gt is set), one engine *)
(* invocation, SUMMARIES to wandb.log; the engine is given the configured  *)
(* metric names the catalog resolves, in order, whatever unknown names     *)
(* stand among them.                                                       *)
C2_RunOrderWithGroundTruth ==
    ~GroundTruthMissing =>
        /\ Len(trace) <= Len(ExpectedTrace)
        /\ trace = SubSeq(ExpectedTrace, 1, Len(trace))
        /\ pc = "done" => trace = ExpectedTrace
        /\ pc = "init" <=> trace = <<>>
        /\ Len(engine_calls) = Count(trace, "evaluate")
        /\ Len(wandb_log) = Count(trace, "log")
        /\ \A i \in DOMAIN engine_calls :
              engine_calls[i].metrics =
                  SelectSeq(cfg.metrics, LAMBDA name : name \in MetricCatalog)
        /\ \A i \in DOMAIN wandb_log :
              wandb_log[i] = [group |-> "SUMMARIES", of_call |-> 1]

(* Witness of C2: a finished run with save_gt set whose first configured   *)
(* metric is unknown and whose second is resolved.                         *)
C2_Witness ==
    /\ pc = "done"
    /\ ~GroundTruthMissing
    /\ cfg.save_gt
    /\ Len(cfg.metrics) = 2
    /\ cfg.metrics[1] \notin MetricCatalog
    /\ Len(engine_calls) = 1
    /\ engine_calls[1].metrics = <<cfg.metrics[2]>>
    /\ Len(wandb_log) = 1


-----------------------------------------------------------------------------
(* format_metric.                                                          *)
(* A metric name is a sequence of characters.  A metric value is the       *)
(* double nearest to a decimal with four fractional digits; it is held as  *)
(* the integer decimal * 10^4.  The result is an int, or the double        *)
(* nearest to a decimal with three fractional digits, held as the integer  *)
(* decimal * 10^3.                                                         *)

(* "sub in name" *)
Contains(name, sub) ==
    \E i \in 1..(Len(name) - Len(sub) + 1) :
        SubSeq(name, i, i + Len(sub) - 1) = sub

(* int(v): the value cut towards zero. *)
int(value) ==
    IF value >= 0 THEN value \div 10000 ELSE -((-value) \div 10000)

(* The arithmetic of np.around is that of IEEE-754 doubles.  The magnitude *)
(* of a double is m * 2^e with m below 2^53 (2^53 itself after a carry);   *)
(* m is held as a sequence of limbs in base 2^15, most significant first,  *)
(* without leading zeros, the empty sequence being zero.                   *)
Limb == 2^15

RECURSIVE Strip(_)
Strip(N) == IF N # <<>> /\ Head(N) = 0 THEN Strip(Tail(N)) ELSE N

RECURSIVE FromInt(_)
FromInt(n) == IF n = 0 THEN <<>> ELSE Append(FromInt(n \div Limb), n % Limb)

RECURSIVE ToInt(_)
ToInt(N) ==
    IF N = <<>> THEN 0
    ELSE ToInt(SubSeq(N, 1, Len(N) - 1)) * Limb + N[Len(N)]

RECURSIVE MulCarry(_, _, _)
MulCarry(N, s, carry) ==
    IF N = <<>> THEN FromInt(carry)
    ELSE LET p == N[Len(N)] * s + carry
         IN  Append(MulCarry(SubSeq(N, 1, Len(N) - 1), s, p \div Limb), p % Limb)

(* N * s for 0 < s < 2^15 *)
MulSmall(N, s) == Strip(MulCarry(N, s, 0))

RECURSIVE DivRem(_, _, _, _)
DivRem(N, d, r, acc) ==
    IF N = <<>> THEN [q |-> Strip(acc), r |-> r]
    ELSE LET t == r * Limb + Head(N)
         IN  DivRem(Tail(N), d, t % d, Append(acc, t \div d))

(* quotient and remainder of N by d, 0 < d <= 2^15 *)
DivSmall(N, d) == DivRem(N, d, 0, <<>>)

RECURSIVE AddOne(_)
AddOne(N) ==
    IF N = <<>> THEN <<1>>
    ELSE IF N[Len(N)] < Limb - 1 THEN [N EXCEPT ![Len(N)] = @ + 1]
    ELSE Append(AddOne(SubSeq(N, 1, Len(N) - 1)), 0)

BitLen(N) ==
    IF N = <<>> THEN 0
    ELSE 15 * (Len(N) - 1)
         + CHOOSE b \in 1..15 : 2^(b - 1) <= Head(N) /\ Head(N) < 2^b

(* N * 2^n *)
ShiftLeft(N, n) ==
    IF N = <<>> THEN <<>>
    ELSE MulSmall(N, 2^(n % 15)) \o [i \in 1..(n \div 15) |-> 0]

(* floor(N / 2^n), and whether a non-zero remainder was cut off *)
FloorShift(N, n) ==
    LET w == n \div 15
        keep == IF w >= Len(N) THEN <<>> ELSE SubSeq(N, 1, Len(N) - w)
        cut == IF w >= Len(N) THEN N ELSE SubSeq(N, Len(N) - w + 1, Len(N))
        d == DivSmall(keep, 2^(n % 15))
    IN  [q |-> d.q, sticky |-> d.r # 0 \/ \E i \in DOMAIN cut : cut[i] # 0]

(* N / 2^n to the nearest integer, a tie to the even one; sticky tells     *)
(* that N itself was cut from something larger.                            *)
RoundShift(N, n, sticky) ==
    IF n = 0 THEN N
    ELSE LET f == FloorShift(N, n - 1)
             h == DivSmall(f.q, 2)
             odd == h.q # <<>> /\ h.q[Len(h.q)] % 2 = 1
         IN  IF h.r = 1 /\ (f.sticky \/ sticky \/ odd) THEN AddOne(h.q) ELSE h.q

(* The double nearest to N * 2^e: the 53 leading bits of N, rounded. *)
Round53(N, e, sticky) ==
    IF BitLen(N) <= 53 THEN [m |-> N, e |-> e]
    ELSE [m |-> RoundShift(N, BitLen(N) - 53, sticky), e |-> e + BitLen(N) - 53]

(* The double nearest to k / d, for integers k > 0 and 0 < d <= 2^15. *)
fdiv(k, d) ==
    LET dv == DivSmall(ShiftLeft(FromInt(k), 75), d)
    IN  Round53(dv.q, -75, dv.r # 0)

(* x * s in double arithmetic, s an integer, 0 < s < 2^15. *)
fmul(x, s) == Round53(MulSmall(x.m, s), x.e, FALSE)

(* np.rint: to the nearest integer, a tie to the even one. *)
rint(x) ==
    IF x.e >= 0 THEN ToInt(ShiftLeft(x.m, x.e))
    ELSE ToInt(RoundShift(x.m, -x.e, FALSE))

(* np.around(value * scale_factor, 3) = rint(value * scale_factor * 1000)  *)
(* / 1000 on doubles: value is the double nearest to the decimal, each     *)
(* product is rounded to a double, and only then the tie rule applies.     *)
(* The result is returned in thousandths.                                  *)
around3(value, scale_factor) ==
    IF value = 0 THEN 0
    ELSE LET x == fdiv(IF value < 0 THEN -value ELSE value, 10000)
             y == fmul(x, scale_factor)
             z == fmul(y, 1000)
         IN  IF value < 0 THEN -rint(z) ELSE rint(z)

(* Mutant of format_metric: MOTP is not set apart from the counts. *)
format_metric_without_motp_case(metric_name, metric_value, scale_factor) ==
    IF \/ Contains(metric_name, <<"T", "P">>)
       \/ Contains(metric_name, <<"F", "N">>)
       \/ Contains(metric_name, <<"F", "P">>)
       \/ Contains(metric_name, <<"T", "N">>)
    THEN [kind |-> "int", value |-> int(metric_value)]
    ELSE [kind |-> "float", value |-> around3(metric_value, scale_factor)]

format_metric(metric_name, metric_value, scale_factor) ==
    IF \/ Contains(metric_name, <<"T", "P">>)
       \/ Contains(metric_name, <<"F", "N">>)
       \/ Contains(metric_name, <<"F", "P">>)
       \/ Contains(metric_name, <<"T", "N">>)
    THEN IF metric_name = <<"M", "O", "T", "P">>
         THEN [kind |-> "float", value |-> around3(metric_value, scale_factor)]
         ELSE [kind |-> "int", value |-> int(metric_value)]
    ELSE [kind |-> "float", value |-> around3(metric_value, scale_factor)]

(* The inputs explored. *)
NameAlphabet == {"T", "P", "F", "N", "M", "O"}
NamedMetrics == {<<"M", "O", "T", "P">>, <<"M", "O", "T", "A">>,
                 <<"C", "L", "R", "_", "T", "P">>, <<"M", "O", "T", "P", "_", "X">>,
                 <<"I", "D", "F", "N">>, <<"H", "O", "T", "A">>}
MetricValues == {4567, 8120, 1200000, 19999, 5015, 625, -20475, 0}
ScaleFactors == {1, 100}

InitFormat ==
    /\ metric \in [name : SeqsUpTo(NameAlphabet, MaxNameLen) \cup NamedMetrics,
                   value : MetricValues,
                   scale_factor : ScaleFactors]
    /\ rendered = NoRendered
    /\ pc = "idle"
    /\ call = NoCall
    /\ detections_pred = <<>>
    /\ detections_gt = NoTable
    /\ image_metadatas = <<>>
    /\ video_metadatas = <<>>
    /\ cfg = NoCfg
    /\ fs = EmptyFS
    /\ engine_calls = <<>>
    /\ wandb_log = <<>>
    /\ trace = <<>>

CallFormatMetric ==
    /\ pc = "idle"
    /\ rendered' = format_metric(metric.name, metric.value, metric.scale_factor)
    /\ call' = [NoCall EXCEPT !.fn = "format_metric"]
    /\ pc' = "returned"
    /\ UNCHANGED <<detections_pred, detections_gt, image_metadatas, video_metadatas,
                   cfg, fs, engine_calls, wandb_log, trace, metric>>

NextFormat == CallFormatMetric

SpecFormat == InitFormat /\ [][NextFormat]_vars

(* The name holds TP, FN, FP or TN as two neighbouring characters. *)
NameHasCountPair(name) ==
    \E i \in 1..(Len(name) - 1) :
        <<name[i], name[i + 1]>> \in {<<"T", "P">>, <<"F", "N">>, <<"F", "P">>, <<"T", "N">>}

(* C10: format_metric gives an integer, the value cut to its whole part    *)
(* and not scaled, exactly when the name holds TP, FN, FP or TN and is not *)
(* "MOTP"; otherwise it gives value * scale factor rounded to three        *)
(* decimals.  MOTA 0.4567 at scale 100 gives 45.67, CLR_TP 120.0 gives     *)
(* 120, MOTP 0.812 at scale 100 gives 81.2.                                *)
C10_FormatMetric ==
    (pc = "returned" /\ call.fn = "format_metric") =>
        LET asInt == NameHasCountPair(metric.name)
                       /\ metric.name # <<"M", "O", "T", "P">>
            exact == metric.value * metric.scale_factor
        IN  /\ asInt <=> rendered.kind = "int"
            /\ ~asInt <=> rendered.kind = "float"
            /\ asInt =>
                  IF metric.value >= 0
                  THEN 10000 * rendered.value <= metric.value
                       /\ metric.value < 10000 * (rendered.value + 1)
                  ELSE 10000 * rendered.value >= metric.value
                       /\ metric.value > 10000 * (rendered.value - 1)
            /\ ~asInt =>
                  /\ 10 * rendered.value - exact <= 5
                  /\ exact - 10 * rendered.value <= 5
            /\ (metric = [name |-> <<"M", "O", "T", "A">>, value |-> 4567,
                          scale_factor |-> 100])
                  => rendered = [kind |-> "float", value |-> 45670]
            /\ (metric.name = <<"C", "L", "R", "_", "T", "P">> /\ metric.value = 1200000)
                  => rendered = [kind |-> "int", value |-> 120]
            /\ (metric = [name |-> <<"M", "O", "T", "P">>, value |-> 8120,
                          scale_factor |-> 100])
                  => rendered = [kind |-> "float", value |-> 81200]

(* Witness of C10: MOTP 0.812 at scale 100 was rendered as 81.2. *)
C10_Witness ==
    /\ pc = "returned"
    /\ call.fn = "format_metric"
    /\ metric = [name |-> <<"M", "O", "T", "P">>, value |-> 8120, scale_factor |-> 100]
    /\ rendered = [kind |-> "float", value |-> 81200]

=============================================================================
